---- MODULE Spec2Model ----
(***************************************************************************)
(* Nebula Reconstruction Kit: Reed-Solomon shard encoding, shard loading   *)
(* with per-shard hashes, manifest verification, file reconstruction with  *)
(* optional AES-256-GCM unwrap, and the verify / rebuild command line.     *)
(*                                                                         *)
(* Byte strings are sequences of integers 0..255.  Python's None in an     *)
(* Optional[bytes] position is the one-element sequence <<-1>>, which is   *)
(* no byte string.                                                         *)
(***************************************************************************)
EXTENDS Integers, Sequences, FiniteSets, TLC

\* ------------------------------------------------------------------ bounds
MaxLen == 3
MaxN == 3

\* how many times the manifest document is altered after it was written
MaxTamper == 1

\* byte values plaintexts are drawn from
PlainBytes == {0, 167}

\* alterations made to a hand-written manifest
MaxAlter == 2

\* longest leaf list handed to compute_merkle_root on its own
MaxLeaves == 4

\* ------------------------------------------------------------- primitives
None == <<-1>>

Min(a, b) == IF a < b THEN a ELSE b

Max(a, b) == IF a > b THEN a ELSE b

\* the sequence with the values of f on 1..len, as a tuple
Tuple(f, len) == SubSeq(f, 1, len)

\* python s[lo:hi] for 0 <= lo, 0 <= hi
Slice(s, lo, hi) == SubSeq(s, lo + 1, Min(hi, Len(s)))

\* faulty variant of the slice [:size]: the padding is not cut off
Truncate_keep_padding(s, size) == s

\* python s[:size] including a negative size (counted from the end)
Truncate(s, size) == IF size >= 0 THEN Slice(s, 0, size) ELSE Slice(s, 0, Max(Len(s) + size, 0))

\* faulty variant of the shard size computation: integer division rounds down
CeilDiv_floor(a, b) == a \div b

\* math.ceil(a / b) for a >= 0, b >= 1
CeilDiv(a, b) == (a + b - 1) \div b

\* bytes.ljust(size, b'\x00')
ljust(data, size) == data \o Tuple([i \in 1..(size - Len(data)) |-> 0], size - Len(data))

RECURSIVE Concat(_)
\* b''.join(list)
Concat(list) == IF list = <<>> THEN <<>> ELSE IF Len(list) = 1 THEN list[1] ELSE Concat(SubSeq(list, 1, Len(list) \div 2)) \o Concat(SubSeq(list, Len(list) \div 2 + 1, Len(list)))

RECURSIVE BytesUpTo(_)
\* all byte strings over PlainBytes of length <= len
BytesUpTo(len) == IF len = 0 THEN {<<>>} ELSE BytesUpTo(len - 1) \cup {Append(s, b) : s \in {t \in BytesUpTo(len - 1) : Len(t) = len - 1}, b \in PlainBytes}

\* ------------------------------------------------- GF(2^8), reedsolo tables
RECURSIVE Xor(_, _)
\* bitwise exclusive or of two naturals
Xor(a, b) == IF a = 0 THEN b ELSE IF b = 0 THEN a ELSE ((a + b) % 2) + 2 * Xor(a \div 2, b \div 2)

\* reedsolo's antilog table: gf_exp[i + 1] = 2^i modulo 0x11d, for i in 0..254
gf_exp == <<1, 2, 4, 8, 16, 32, 64, 128, 29, 58, 116, 232, 205, 135, 19, 38, 76, 152, 45, 90, 180, 117, 234, 201, 143, 3, 6, 12, 24, 48, 96, 192, 157, 39, 78, 156, 37, 74, 148, 53, 106, 212, 181, 119, 238, 193, 159, 35, 70, 140, 5, 10, 20, 40, 80, 160, 93, 186, 105, 210, 185, 111, 222, 161, 95, 190, 97, 194, 153, 47, 94, 188, 101, 202, 137, 15, 30, 60, 120, 240, 253, 231, 211, 187, 107, 214, 177, 127, 254, 225, 223, 163, 91, 182, 113, 226, 217, 175, 67, 134, 17, 34, 68, 136, 13, 26, 52, 104, 208, 189, 103, 206, 129, 31, 62, 124, 248, 237, 199, 147, 59, 118, 236, 197, 151, 51, 102, 204, 133, 23, 46, 92, 184, 109, 218, 169, 79, 158, 33, 66, 132, 21, 42, 84, 168, 77, 154, 41, 82, 164, 85, 170, 73, 146, 57, 114, 228, 213, 183, 115, 230, 209, 191, 99, 198, 145, 63, 126, 252, 229, 215, 179, 123, 246, 241, 255, 227, 219, 171, 75, 150, 49, 98, 196, 149, 55, 110, 220, 165, 87, 174, 65, 130, 25, 50, 100, 200, 141, 7, 14, 28, 56, 112, 224, 221, 167, 83, 166, 81, 162, 89, 178, 121, 242, 249, 239, 195, 155, 43, 86, 172, 69, 138, 9, 18, 36, 72, 144, 61, 122, 244, 245, 247, 243, 251, 235, 203, 139, 11, 22, 44, 88, 176, 125, 250, 233, 207, 131, 27, 54, 108, 216, 173, 71, 142>>

\* reedsolo's log table: gf_log[x] = i with 2^i = x, for x in 1..255
gf_log == <<0, 1, 25, 2, 50, 26, 198, 3, 223, 51, 238, 27, 104, 199, 75, 4, 100, 224, 14, 52, 141, 239, 129, 28, 193, 105, 248, 200, 8, 76, 113, 5, 138, 101, 47, 225, 36, 15, 33, 53, 147, 142, 218, 240, 18, 130, 69, 29, 181, 194, 125, 106, 39, 249, 185, 201, 154, 9, 120, 77, 228, 114, 166, 6, 191, 139, 98, 102, 221, 48, 253, 226, 152, 37, 179, 16, 145, 34, 136, 54, 208, 148, 206, 143, 150, 219, 189, 241, 210, 19, 92, 131, 56, 70, 64, 30, 66, 182, 163, 195, 72, 126, 110, 107, 58, 40, 84, 250, 133, 186, 61, 202, 94, 155, 159, 10, 21, 121, 43, 78, 212, 229, 172, 115, 243, 167, 87, 7, 112, 192, 247, 140, 128, 99, 13, 103, 74, 222, 237, 49, 197, 254, 24, 227, 165, 153, 119, 38, 184, 180, 124, 17, 68, 146, 217, 35, 32, 137, 46, 55, 63, 209, 91, 149, 188, 207, 205, 144, 135, 151, 178, 220, 252, 190, 97, 242, 86, 211, 171, 20, 42, 93, 158, 132, 60, 57, 83, 71, 109, 65, 162, 31, 45, 67, 216, 183, 123, 164, 118, 196, 23, 73, 236, 127, 12, 111, 246, 108, 161, 59, 82, 41, 157, 85, 170, 251, 96, 134, 177, 187, 204, 62, 90, 203, 89, 95, 176, 156, 169, 160, 81, 11, 245, 22, 235, 122, 117, 44, 215, 79, 174, 213, 233, 230, 231, 173, 232, 116, 214, 244, 234, 168, 80, 88, 175>>

gf_pow2(i) == gf_exp[(i % 255) + 1]

gf_mul(x, y) == IF x = 0 \/ y = 0 THEN 0 ELSE gf_pow2(gf_log[x] + gf_log[y])

gf_div(x, y) == IF x = 0 THEN 0 ELSE gf_pow2(gf_log[x] + 255 - gf_log[y])

\* ------------------------------------------------------ reedsolo RSCodec
RECURSIVE rs_generator_poly(_)
\* g(x) = (x - 2^0)(x - 2^1)...(x - 2^(nsym-1)), highest coefficient first
rs_generator_poly(nsym) == IF nsym = 0 THEN <<1>> ELSE LET g == rs_generator_poly(nsym - 1) r == gf_pow2(nsym - 1) IN Tuple([p \in 1..(Len(g) + 1) |-> Xor(IF p <= Len(g) THEN g[p] ELSE 0, IF p >= 2 THEN gf_mul(g[p - 1], r) ELSE 0)], Len(g) + 1)

\* one step of the synthetic division of out by gen: cancel the coefficient at position i
rs_divide_step(out, gen, i) == LET coef == out[i] IN Tuple([p \in 1..Len(out) |-> IF p > i /\ p < i + Len(gen) THEN Xor(out[p], gf_mul(gen[p - i + 1], coef)) ELSE out[p]], Len(out))

RECURSIVE rs_divide(_, _, _, _)
\* synthetic division of out by gen: the steps first..last in order
rs_divide(out, gen, first, last) == IF first > last THEN out ELSE IF first = last THEN rs_divide_step(out, gen, first) ELSE LET mid == (first + last) \div 2 half == rs_divide(out, gen, first, mid) IN IF Len(half) = Len(out) THEN rs_divide(half, gen, mid + 1, last) ELSE half

\* systematic codeword of one chunk: the message followed by nsym check symbols
rs_encode_msg(msg, nsym) == msg \o SubSeq(rs_divide(msg \o Tuple([i \in 1..nsym |-> 0], nsym), rs_generator_poly(nsym), 1, Len(msg)), Len(msg) + 1, Len(msg) + nsym)

RECURSIVE RSCodec_encode(_, _)
\* RSCodec(nsym).encode(data): chunks of 255 - nsym symbols, each encoded
RSCodec_encode(data, nsym) == IF data = <<>> THEN <<>> ELSE rs_encode_msg(Slice(data, 0, 255 - nsym), nsym) \o RSCodec_encode(Slice(data, 255 - nsym, Len(data)), nsym)

RECURSIVE XorAll(_)
\* sum in GF(2^8) of a sequence of field elements
XorAll(seq) == IF seq = <<>> THEN 0 ELSE Xor(Head(seq), XorAll(Tail(seq)))

RECURSIVE SortedSeq(_)
\* the elements of a finite set of integers in ascending order
SortedSeq(S) == IF S = {} THEN <<>> ELSE LET m == CHOOSE x \in S : \A y \in S : x <= y IN <<m>> \o SortedSeq(S \ {m})

\* locator 2^(n-p) of the symbol at (1-based) position p of a length-n codeword
rs_locator(len, p) == gf_pow2(len - p)

\* syndromes S_0..S_(count-1): the codeword polynomial evaluated at 2^0..2^(count-1)
rs_calc_syndromes(msg, count) == Tuple([j \in 1..count |-> XorAll(Tuple([p \in 1..Len(msg) |-> gf_mul(msg[p], gf_pow2((Len(msg) - p) * (j - 1)))], Len(msg)))], count)

RECURSIVE rs_eliminate(_, _)
\* remove from the syndromes the contribution of the positions with locators Xs
rs_eliminate(S, Xs) == IF Xs = <<>> THEN S ELSE rs_eliminate(Tuple([j \in 1..(Len(S) - 1) |-> Xor(S[j + 1], gf_mul(Head(Xs), S[j]))], Len(S) - 1), Tail(Xs))

RECURSIVE gf_product(_)
gf_product(seq) == IF seq = <<>> THEN 1 ELSE gf_mul(Head(seq), gf_product(Tail(seq)))

\* value of the unknown symbol at position p, the positions U being unknown and zeroed in msg
rs_magnitude(msg, U, p) == LET others == SortedSeq(U \ {p}) Xs == Tuple([l \in 1..Len(others) |-> rs_locator(Len(msg), others[l])], Len(others)) IN gf_div(rs_eliminate(rs_calc_syndromes(msg, Cardinality(U)), Xs)[1], gf_product(Tuple([l \in 1..Len(Xs) |-> Xor(rs_locator(Len(msg), p), Xs[l])], Len(Xs))))

\* msg with the symbols at the positions U solved from the first |U| syndromes
rs_correct_errata(msg, U) == LET zeroed == Tuple([p \in 1..Len(msg) |-> IF p \in U THEN 0 ELSE msg[p]], Len(msg)) IN Tuple([p \in 1..Len(msg) |-> IF p \in U THEN rs_magnitude(zeroed, U, p) ELSE msg[p]], Len(msg))

\* sets of at most (nsym - |E|) / 2 further positions whose correction yields a codeword
rs_error_sets(msg, nsym, E) == {T \in SUBSET ((1..Len(msg)) \ E) : 2 * Cardinality(T) + Cardinality(E) <= nsym /\ \A j \in 1..nsym : rs_calc_syndromes(rs_correct_errata(msg, E \cup T), nsym)[j] = 0}

\* RSCodec(nsym).decode(codeword, erase_pos) for one chunk; erase_pos 0-based.
\* ok = FALSE is ReedSolomonError; msg is the information part of the corrected codeword.
RSCodec_decode(codeword, nsym, erase_pos) == LET E == {e + 1 : e \in erase_pos} IN IF Cardinality(E) > nsym THEN [ok |-> FALSE, msg |-> None] ELSE LET Ts == rs_error_sets(codeword, nsym, E) IN IF Ts = {} THEN [ok |-> FALSE, msg |-> None] ELSE [ok |-> TRUE, msg |-> SubSeq(rs_correct_errata(codeword, E \cup (CHOOSE T \in Ts : TRUE)), 1, Len(codeword) - nsym)]

\* ------------------------------------------------------------ erasure.py
\* RSParams
RSParams(k, parity, n, shard_size) == [data_shards |-> k, parity_shards |-> parity, total_shards |-> n, shard_size |-> shard_size]

NoParams == RSParams(0, 0, 0, 0)

\* codeword columns rs.encode(data_bytes) of every byte position
encode_columns(data_shards, k, parity_count, shard_size) == Tuple([byte_pos \in 1..shard_size |-> RSCodec_encode(Tuple([i \in 1..k |-> data_shards[i][byte_pos]], k), parity_count)], shard_size)

\* encode_data(data, k, n): status "ok" with the n shards and the params, or the exception raised
encode_data(data, k, n) == IF n <= k THEN [status |-> "ValueError", shards |-> <<>>, params |-> NoParams] ELSE IF k < 1 THEN [status |-> "ValueError", shards |-> <<>>, params |-> NoParams] ELSE LET parity_count == n - k padded_size == CeilDiv(Len(data), k) * k padded_data == ljust(data, padded_size) shard_size == padded_size \div k data_shards == Tuple([i \in 1..k |-> Slice(padded_data, (i - 1) * shard_size, i * shard_size)], k) encoded == encode_columns(data_shards, k, parity_count, shard_size) IN IF \E byte_pos \in 1..shard_size : Len(encoded[byte_pos]) - k > parity_count THEN [status |-> "IndexError", shards |-> <<>>, params |-> NoParams] ELSE [status |-> "ok", shards |-> data_shards \o Tuple([j \in 1..parity_count |-> Tuple([byte_pos \in 1..shard_size |-> encoded[byte_pos][k + j]], shard_size)], parity_count), params |-> RSParams(k, parity_count, n, shard_size)]

\* largest element of a non-empty finite set of integers
MaxOf(S) == CHOOSE x \in S : \A y \in S : y <= x

\* faulty variant of the shard map: shards keyed by their position in the list
build_shard_map_by_position(shards, shard_indices) == [idx \in {i - 1 : i \in {j \in 1..Len(shards) : shards[j] # None}} |-> shards[idx + 1]]

\* shard_map built from zip(shard_indices, shards): a later pair replaces an earlier one
build_shard_map(shards, shard_indices) == LET pairs == {i \in 1..Min(Len(shards), Len(shard_indices)) : shards[i] # None} IN [idx \in {shard_indices[i] : i \in pairs} |-> shards[MaxOf({i \in pairs : shard_indices[i] = idx})]]

\* ReconstructionResult
ReconstructionResult(success, data, original_size, used, available, required, error) == [success |-> success, data |-> data, original_size |-> original_size, shards_used |-> used, shards_available |-> available, shards_required |-> required, error |-> error]

RECURSIVE erasure_decode(_, _, _, _, _, _)
\* the loop over byte positions of the erasure path: the decoded columns so far,
\* or the first failure ("rs_decode_failed" for ReedSolomonError, "exception" for any other)
erasure_decode(shard_map, k, n, shard_size, byte_pos, cols) == IF byte_pos > shard_size THEN [status |-> "ok", cols |-> cols] ELSE LET present == {i \in 0..(n - 1) : i \in DOMAIN shard_map} IN IF \E i \in present : Len(shard_map[i]) < byte_pos THEN [status |-> "exception", cols |-> cols] ELSE LET codeword == Tuple([p \in 1..n |-> IF (p - 1) \in present THEN shard_map[p - 1][byte_pos] ELSE 0], n) decoded == RSCodec_decode(codeword, n - k, (0..(n - 1)) \ present) IN IF ~decoded.ok THEN [status |-> "rs_decode_failed", cols |-> cols] ELSE erasure_decode(shard_map, k, n, shard_size, byte_pos + 1, Append(cols, decoded.msg))

\* reconstruct_data(shards, shard_indices, params, original_size)
reconstruct_data(shards, shard_indices, params, original_size) == LET k == params.data_shards n == params.total_shards shard_size == params.shard_size available_count == Cardinality({i \in 1..Len(shards) : shards[i] # None}) IN IF available_count < k THEN ReconstructionResult(FALSE, None, original_size, 0, available_count, k, "need_shards") ELSE LET shard_map == build_shard_map(shards, shard_indices) IN IF \A i \in 0..(k - 1) : i \in DOMAIN shard_map THEN ReconstructionResult(TRUE, Truncate(Concat(Tuple([i \in 1..k |-> shard_map[i - 1]], k)), original_size), original_size, k, available_count, k, "none") ELSE LET dec == erasure_decode(shard_map, k, n, shard_size, 1, <<>>) IN IF dec.status # "ok" THEN ReconstructionResult(FALSE, None, original_size, 0, available_count, k, dec.status) ELSE ReconstructionResult(TRUE, Truncate(Concat(Tuple([i \in 1..k |-> Tuple([byte_pos \in 1..shard_size |-> dec.cols[byte_pos][i]], shard_size)], k)), original_size), original_size, available_count, available_count, k, "none")

\* faulty variant of analyze_reconstruction: the fast path is derived from the shard count
analyze_reconstruction_by_count(available_indices, k, n) == [feasible |-> Len(available_indices) >= k, available_shards |-> Len(available_indices), required_shards |-> k, total_shards |-> n, missing_shards |-> SortedSeq({i \in 0..(n - 1) : \A p \in 1..Len(available_indices) : available_indices[p] # i}), missing_count |-> Cardinality({i \in 0..(n - 1) : \A p \in 1..Len(available_indices) : available_indices[p] # i}), redundancy_margin |-> Len(available_indices) - k, fast_path |-> Len(available_indices) >= k, message |-> IF Len(available_indices) >= k THEN "possible" ELSE "need_more"]

\* analyze_reconstruction(available_indices, k, n): the returned dict
analyze_reconstruction(available_indices, k, n) == [feasible |-> Len(available_indices) >= k, available_shards |-> Len(available_indices), required_shards |-> k, total_shards |-> n, missing_shards |-> SortedSeq({i \in 0..(n - 1) : \A p \in 1..Len(available_indices) : available_indices[p] # i}), missing_count |-> Cardinality({i \in 0..(n - 1) : \A p \in 1..Len(available_indices) : available_indices[p] # i}), redundancy_margin |-> Len(available_indices) - k, fast_path |-> \A d \in 0..(k - 1) : \E p \in 1..Len(available_indices) : available_indices[p] = d, message |-> IF Len(available_indices) >= k THEN "possible" ELSE "need_more"]

\* ------------------------------------------------- hashlib, hex, AES-GCM
\* hashlib.sha256(data).digest(): collision free; the digest is the length-prefixed preimage
sha256(data) == <<-2, Len(data)>> \o data

\* bytes.hex() / hexdigest(): the hex text of raw bytes
hex(raw) == <<-4>> \o raw

IsHex(text) == text # <<>> /\ Head(text) = -4

\* bytes.fromhex(text) of a hex text
fromhex(text) == Tail(text)

sha256_hexdigest(data) == hex(sha256(data))

\* python truthiness of an Optional[str] / Optional[bytes]
Truthy(v) == v # None /\ v # <<>>

\* the 16-byte GCM tag: authenticates key, nonce and ciphertext without collisions
gcm_tag(key, iv, ct) == LET src == key \o iv \o <<Len(ct)>> \o ct IN Tuple([i \in 1..16 |-> IF i <= Len(src) THEN src[i] ELSE 0], 16)

\* the key stream byte at position i
gcm_keystream(key, iv, i) == (key[1] + 3 * iv[1] + 37 * i) % 256

gcm_crypt(key, iv, text) == Tuple([i \in 1..Len(text) |-> Xor(text[i], gcm_keystream(key, iv, i))], Len(text))

\* AESGCM(key).encrypt(iv, plaintext, None): ciphertext followed by the tag
AESGCM_encrypt(key, iv, pt) == gcm_crypt(key, iv, pt) \o gcm_tag(key, iv, gcm_crypt(key, iv, pt))

\* AESGCM(key).decrypt(iv, data, None): ok = FALSE is InvalidTag
AESGCM_decrypt(key, iv, data) == IF Len(data) < 16 THEN [ok |-> FALSE, data |-> None] ELSE LET ct == SubSeq(data, 1, Len(data) - 16) tag == SubSeq(data, Len(data) - 15, Len(data)) IN IF tag # gcm_tag(key, iv, ct) THEN [ok |-> FALSE, data |-> None] ELSE [ok |-> TRUE, data |-> gcm_crypt(key, iv, ct)]

\* ----------------------------------------------------------- manifest.py
RECURSIVE merkle_layers(_)
\* the while loop of compute_merkle_root over a non-empty layer of raw digests
merkle_layers(layer) == IF Len(layer) <= 1 THEN layer[1] ELSE LET padded == IF Len(layer) % 2 = 1 THEN Append(layer, layer[Len(layer)]) ELSE layer IN merkle_layers(Tuple([i \in 1..(Len(padded) \div 2) |-> sha256(padded[2 * i - 1] \o padded[2 * i])], Len(padded) \div 2))

\* faulty variant of compute_merkle_root: a lone leaf is paired with itself like any odd layer
compute_merkle_root_paired(leaves) == IF leaves = <<>> THEN <<>> ELSE IF \E i \in 1..Len(leaves) : ~IsHex(leaves[i]) THEN <<-5>> ELSE IF Len(leaves) = 1 THEN hex(sha256(fromhex(leaves[1]) \o fromhex(leaves[1]))) ELSE hex(merkle_layers(Tuple([i \in 1..Len(leaves) |-> fromhex(leaves[i])], Len(leaves))))

\* compute_merkle_root(leaves): the hex root, "" for no leaves; <<-5>> stands for the ValueError of fromhex
compute_merkle_root(leaves) == IF leaves = <<>> THEN <<>> ELSE IF \E i \in 1..Len(leaves) : ~IsHex(leaves[i]) THEN <<-5>> ELSE hex(merkle_layers(Tuple([i \in 1..Len(leaves) |-> fromhex(leaves[i])], Len(leaves))))

\* load_manifest(path): the parsed document, or ManifestError for a missing or unparsable file
load_manifest(doc) == IF doc.file = "absent" THEN [exc |-> "ManifestError", error |-> "not_found"] ELSE IF doc.file = "garbled" THEN [exc |-> "ManifestError", error |-> "invalid_json"] ELSE [exc |-> "none", error |-> "none"]

required_top == <<"version", "hash_algorithm", "original_size_bytes", "rs", "shards">>

\* the keys line 37 looks for in the rs block
rs_required == <<"data_shards", "parity_shards", "total_shards">>

\* the key at which a "for key in required: if key not in mapping: raise" loop stops
first_missing(keys, required) == required[CHOOSE i \in 1..Len(required) : required[i] \notin keys /\ \A j \in 1..(i - 1) : required[j] \in keys]

\* ManifestError("Missing required field: <key>")
missing_field_error == [version |-> "missing_version", hash_algorithm |-> "missing_hash_algorithm", original_size_bytes |-> "missing_original_size_bytes", rs |-> "missing_rs", shards |-> "missing_shards"]

\* ManifestError("rs.<key> missing")
rs_field_error == [data_shards |-> "rs_data_shards_missing", parity_shards |-> "rs_parity_shards_missing", total_shards |-> "rs_total_shards_missing"]

\* faulty variant of the walk: every failure is collected and the last one is reported
verify_shard_files_last(shards, dir) == LET bad == {i \in 1..Len(shards) : shards[i].path \notin DOMAIN dir \/ dir[shards[i].path] = None \/ sha256_hexdigest(dir[shards[i].path]) # shards[i].hash} IN IF bad = {} THEN "none" ELSE LET final == CHOOSE i \in bad : \A j \in bad : i >= j IN IF shards[final].path \notin DOMAIN dir \/ dir[shards[final].path] = None THEN "shard_file_missing" ELSE "shard_hash_mismatch"

\* the walk over the shard descriptors when shard_dir is given: first failure, or "none"
verify_shard_files(shards, dir) == LET bad == {i \in 1..Len(shards) : shards[i].path \notin DOMAIN dir \/ dir[shards[i].path] = None \/ sha256_hexdigest(dir[shards[i].path]) # shards[i].hash} IN IF bad = {} THEN "none" ELSE LET first == CHOOSE i \in bad : \A j \in bad : i <= j IN IF shards[first].path \notin DOMAIN dir \/ dir[shards[first].path] = None THEN "shard_file_missing" ELSE "shard_hash_mismatch"

\* faulty variant of verify_manifest: the declared shard count is not compared with data_shards
verify_manifest_any_count(manifest, use_dir, dir) == IF \E i \in 1..Len(required_top) : required_top[i] \notin manifest.keys THEN missing_field_error[first_missing(manifest.keys, required_top)] ELSE IF manifest.hash_algorithm # "sha256" THEN "unsupported_hash" ELSE IF \E i \in 1..Len(rs_required) : rs_required[i] \notin manifest.rs.keys THEN rs_field_error[first_missing(manifest.rs.keys, rs_required)] ELSE IF use_dir /\ verify_shard_files(manifest.shards, dir) # "none" THEN verify_shard_files(manifest.shards, dir) ELSE IF "merkle" \in manifest.keys /\ Truthy(manifest.merkle.root) /\ compute_merkle_root(manifest.merkle.leaf_hashes) # manifest.merkle.root THEN "merkle_mismatch" ELSE "none"

\* faulty variant of verify_manifest: the Merkle block is never looked at
verify_manifest_no_merkle(manifest, use_dir, dir) == IF \E i \in 1..Len(required_top) : required_top[i] \notin manifest.keys THEN missing_field_error[first_missing(manifest.keys, required_top)] ELSE IF manifest.hash_algorithm # "sha256" THEN "unsupported_hash" ELSE IF \E i \in 1..Len(rs_required) : rs_required[i] \notin manifest.rs.keys THEN rs_field_error[first_missing(manifest.rs.keys, rs_required)] ELSE IF Len(manifest.shards) < manifest.rs.data_shards THEN "not_enough_shards" ELSE IF use_dir /\ verify_shard_files(manifest.shards, dir) # "none" THEN verify_shard_files(manifest.shards, dir) ELSE "none"

\* verify_manifest(manifest, shard_dir): "none" when it returns, "ValueError" for the uncaught
\* exception of fromhex, else the ManifestError raised
verify_manifest(manifest, use_dir, dir) == IF \E i \in 1..Len(required_top) : required_top[i] \notin manifest.keys THEN missing_field_error[first_missing(manifest.keys, required_top)] ELSE IF manifest.hash_algorithm # "sha256" THEN "unsupported_hash" ELSE IF \E i \in 1..Len(rs_required) : rs_required[i] \notin manifest.rs.keys THEN rs_field_error[first_missing(manifest.rs.keys, rs_required)] ELSE IF Len(manifest.shards) < manifest.rs.data_shards THEN "not_enough_shards" ELSE IF use_dir /\ verify_shard_files(manifest.shards, dir) # "none" THEN verify_shard_files(manifest.shards, dir) ELSE IF "merkle" \in manifest.keys /\ Truthy(manifest.merkle.root) /\ compute_merkle_root(manifest.merkle.leaf_hashes) = <<-5>> THEN "ValueError" ELSE IF "merkle" \in manifest.keys /\ Truthy(manifest.merkle.root) /\ compute_merkle_root(manifest.merkle.leaf_hashes) # manifest.merkle.root THEN "merkle_mismatch" ELSE "none"

\* -------------------------------------------------------- reconstruct.py
\* ShardInfo
ShardInfo(index, path, expected_hash, size, data, actual_hash, valid, error) == [index |-> index, path |-> path, expected_hash |-> expected_hash, size |-> size, data |-> data, actual_hash |-> actual_hash, valid |-> valid, error |-> error]

\* faulty variant of the loader: every file that exists counts as valid
load_shard_unchecked(shard, dir) == IF shard.path \notin DOMAIN dir \/ dir[shard.path] = None THEN ShardInfo(shard.index, shard.path, shard.hash, shard.size_bytes, None, None, FALSE, "not_found") ELSE ShardInfo(shard.index, shard.path, shard.hash, shard.size_bytes, dir[shard.path], sha256_hexdigest(dir[shard.path]), TRUE, "none")

\* faulty variant of the loader: the bytes of a shard whose hash differs are dropped
load_shard_drop_bytes(shard, dir) == IF shard.path \notin DOMAIN dir \/ dir[shard.path] = None THEN ShardInfo(shard.index, shard.path, shard.hash, shard.size_bytes, None, None, FALSE, "not_found") ELSE IF sha256_hexdigest(dir[shard.path]) = shard.hash THEN ShardInfo(shard.index, shard.path, shard.hash, shard.size_bytes, dir[shard.path], sha256_hexdigest(dir[shard.path]), TRUE, "none") ELSE ShardInfo(shard.index, shard.path, shard.hash, shard.size_bytes, None, sha256_hexdigest(dir[shard.path]), FALSE, "hash_mismatch")

\* the ShardInfo of one descriptor
load_shard(shard, dir) == IF shard.path \notin DOMAIN dir \/ dir[shard.path] = None THEN ShardInfo(shard.index, shard.path, shard.hash, shard.size_bytes, None, None, FALSE, "not_found") ELSE LET data == dir[shard.path] actual == sha256_hexdigest(data) IN IF actual = shard.hash THEN ShardInfo(shard.index, shard.path, shard.hash, shard.size_bytes, data, actual, TRUE, "none") ELSE ShardInfo(shard.index, shard.path, shard.hash, shard.size_bytes, data, actual, FALSE, "hash_mismatch")

\* load_and_verify_shards(manifest, shard_dir)
load_and_verify_shards(manifest, dir) == Tuple([i \in 1..Len(manifest.shards) |-> load_shard(manifest.shards[i], dir)], Len(manifest.shards))

RECURSIVE valid_only_loaded(_)
\* faulty variant of the selection: every shard whose file could be read is kept
valid_only_loaded(infos) == IF infos = <<>> THEN <<>> ELSE IF Head(infos).data # None THEN <<Head(infos)>> \o valid_only_loaded(Tail(infos)) ELSE valid_only_loaded(Tail(infos))

\* the elements of seq that satisfy the flag, in order
RECURSIVE valid_only(_)
valid_only(infos) == IF infos = <<>> THEN <<>> ELSE IF Head(infos).valid THEN <<Head(infos)>> \o valid_only(Tail(infos)) ELSE valid_only(Tail(infos))

\* lines 254-255: the shards handed to reconstruct_data ...
shard_data_list(valid_shards) == Tuple([i \in 1..Len(valid_shards) |-> valid_shards[i].data], Len(valid_shards))

\* ... and their indices
shard_indices_of(valid_shards) == Tuple([i \in 1..Len(valid_shards) |-> valid_shards[i].index], Len(valid_shards))

\* ReconstructionReport as first built by reconstruct_file
ReconstructionReport(feasible, original_size, original_hash, k, available, valid, infos) == [success |-> FALSE, feasible |-> feasible, original_size |-> original_size, reconstructed_size |-> 0, original_hash |-> original_hash, reconstructed_hash |-> None, hash_verified |-> FALSE, decrypted |-> FALSE, shards_required |-> k, shards_available |-> available, shards_valid |-> valid, shard_details |-> infos, error |-> "none", error_need |-> 0, error_have |-> 0]

NoReport == ReconstructionReport(FALSE, 0, None, 0, 0, 0, <<>>)

\* outcome of a reconstruct_file call: exc = "none" when it returns (value is the returned
\* tuple), else the exception raised (value.data is None: nothing is returned); report is
\* the report object as the call left it; rs_called tells whether reconstruct_data was invoked;
\* received lists the reports the caller holds afterwards: the returned one, or none when
\* the call raised (raise ManifestError(report.error) passes on the message only, the
\* report is a local of the call)
FileOutcome(exc, data, report, rs_called) == [exc |-> exc, value |-> [type |-> "tuple", data |-> data, report |-> report], report |-> report, rs_called |-> rs_called, received |-> IF exc = "none" THEN <<report>> ELSE <<>>]

NoEncryption == [algorithm |-> "", iv |-> <<>>, tag |-> <<>>]

\* manifest.get("encryption"): the block, or the block without fields (which
\* Python treats as false, like None) when the key is absent
get_encryption(manifest) == IF "encryption" \in manifest.keys THEN manifest.encryption ELSE NoEncryption

\* faulty variant: asks for the key before it looks at the algorithm
decrypt_stage_key_first(enc, key, reconstructed) == IF ~(key # <<-1>> /\ key # <<>>) THEN [error |-> "key_required", data |-> <<-1>>] ELSE IF enc.algorithm # "aes-256-gcm" THEN [error |-> "unsupported_cipher", data |-> <<-1>>] ELSE [error |-> "decryption_failed", data |-> <<-1>>]

\* faulty variant of the encryption stage: the separated tag is not appended
decrypt_stage_without_tag(enc, key, reconstructed) == IF enc.algorithm # "aes-256-gcm" THEN [error |-> "unsupported_cipher", data |-> None] ELSE IF ~Truthy(key) THEN [error |-> "key_required", data |-> None] ELSE IF ~Truthy(enc.iv) THEN [error |-> "missing_iv", data |-> None] ELSE IF ~IsHex(enc.iv) THEN [error |-> "decryption_failed", data |-> None] ELSE LET opened == AESGCM_decrypt(key, fromhex(enc.iv), reconstructed) IN IF opened.ok THEN [error |-> "none", data |-> opened.data] ELSE [error |-> "decryption_failed", data |-> None]

\* the encryption stage: the opened plaintext, or the error that aborts
decrypt_stage(enc, key, reconstructed) == IF enc.algorithm # "aes-256-gcm" THEN [error |-> "unsupported_cipher", data |-> None] ELSE IF ~Truthy(key) THEN [error |-> "key_required", data |-> None] ELSE IF ~Truthy(enc.iv) THEN [error |-> "missing_iv", data |-> None] ELSE IF ~IsHex(enc.iv) \/ (Truthy(enc.tag) /\ ~IsHex(enc.tag)) THEN [error |-> "decryption_failed", data |-> None] ELSE LET opened == AESGCM_decrypt(key, fromhex(enc.iv), IF Truthy(enc.tag) THEN reconstructed \o fromhex(enc.tag) ELSE reconstructed) IN IF opened.ok THEN [error |-> "none", data |-> opened.data] ELSE [error |-> "decryption_failed", data |-> None]

\* faulty variant of the last stage: the whole-file hash is computed but never compared
finish_file_unverified(report, plaintext, decrypted, verify_hash) == FileOutcome("none", plaintext, [report EXCEPT !.decrypted = decrypted, !.reconstructed_size = Len(plaintext), !.reconstructed_hash = sha256_hexdigest(plaintext), !.success = TRUE], TRUE)

\* lines 306-317: sizes, whole-file hash, success
finish_file(report, plaintext, decrypted, verify_hash) == LET r1 == [report EXCEPT !.decrypted = decrypted, !.reconstructed_size = Len(plaintext), !.reconstructed_hash = sha256_hexdigest(plaintext)] IN IF verify_hash /\ Truthy(r1.original_hash) THEN IF r1.reconstructed_hash = r1.original_hash THEN FileOutcome("none", plaintext, [r1 EXCEPT !.hash_verified = TRUE, !.success = TRUE], TRUE) ELSE FileOutcome("ManifestError", None, [r1 EXCEPT !.error = "hash_mismatch"], TRUE) ELSE FileOutcome("none", plaintext, [r1 EXCEPT !.success = TRUE], TRUE)

\* faulty variant of the feasibility test: exactly k valid shards are refused
is_feasible_strict(valid_count, required) == valid_count > required

\* faulty variant of the feasibility test: only exactly k valid shards are accepted
is_feasible_exact(valid_count, required) == valid_count = required

\* report.feasible
is_feasible(valid_count, required) == valid_count >= required

\* reconstruct_file(manifest, shard_dir, key, verify_hash); rs_errors_corrected, which
\* depends on the errata list of the installed reedsolo, is left out of the report
reconstruct_file(manifest, dir, key, verify_hash) == IF \E f \in {"rs", "original_size_bytes", "shards"} : f \notin manifest.keys THEN FileOutcome("KeyError", None, NoReport, FALSE) ELSE LET k == manifest.rs.data_shards n == manifest.rs.total_shards original_size == manifest.original_size_bytes original_hash == IF "original_hash" \in manifest.keys THEN manifest.original_hash ELSE None shard_infos == load_and_verify_shards(manifest, dir) valid_shards == valid_only(shard_infos) report == ReconstructionReport(is_feasible(Len(valid_shards), k), original_size, original_hash, k, Cardinality({i \in 1..Len(shard_infos) : shard_infos[i].data # None}), Len(valid_shards), shard_infos) IN IF ~report.feasible THEN FileOutcome("ManifestError", None, [report EXCEPT !.error = "infeasible", !.error_need = k, !.error_have = Len(valid_shards)], FALSE) ELSE LET shard_size == IF valid_shards # <<>> THEN Len(valid_shards[1].data) ELSE 0 rs_result == reconstruct_data(shard_data_list(valid_shards), shard_indices_of(valid_shards), RSParams(k, n - k, n, shard_size), original_size) IN IF ~rs_result.success THEN FileOutcome("ManifestError", None, [report EXCEPT !.error = rs_result.error], TRUE) ELSE IF get_encryption(manifest) # NoEncryption THEN LET opened == decrypt_stage(get_encryption(manifest), key, rs_result.data) IN IF opened.error # "none" THEN FileOutcome("ManifestError", None, [report EXCEPT !.error = opened.error], TRUE) ELSE finish_file(report, opened.data, TRUE, verify_hash) ELSE finish_file(report, rs_result.data, FALSE, verify_hash)

\* ----------------------------------------------------------------- cli.py
\* Path.write_bytes(data): memoryview(data) raises TypeError before the file is opened
write_bytes(old_content, value) == IF value.type = "bytes" THEN [exc |-> "none", content |-> value.data] ELSE [exc |-> "TypeError", content |-> old_content]

\* outcome of a command: the status the process exits with (sys.exit(main()): the returned
\* value, or 1 after an uncaught exception), the uncaught exception, the --out file afterwards
CommandOutcome(exit_status, uncaught, out) == [exit_status |-> exit_status, uncaught |-> uncaught, out |-> out]

\* lines 17-22 of cmd_verify, v being the outcome of the verify_manifest call
verify_verified(v, out) == IF v = "none" THEN CommandOutcome(0, "none", out) ELSE IF v = "ValueError" THEN CommandOutcome(1, "ValueError", out) ELSE CommandOutcome(1, "none", out)

\* faulty variant of cmd_verify: a verification error still exits with 0
cmd_verify_lenient(doc, use_dir, dir, out) == IF load_manifest(doc).exc # "none" THEN CommandOutcome(1, "none", out) ELSE CommandOutcome(0, "none", out)

\* cmd_verify(args)
cmd_verify(doc, use_dir, dir, out) == IF load_manifest(doc).exc # "none" THEN CommandOutcome(1, "none", out) ELSE verify_verified(verify_manifest(doc, use_dir, dir), out)

\* lines 33-36 of cmd_rebuild: the returned value goes to write_bytes as it is
rebuild_write(written) == IF written.exc # "none" THEN CommandOutcome(1, written.exc, written.content) ELSE CommandOutcome(0, "none", written.content)

\* lines 32-39 of cmd_rebuild, data being the outcome of the reconstruct_file call
rebuild_reconstructed(data, out) == IF data.exc = "ManifestError" THEN CommandOutcome(1, "none", out) ELSE IF data.exc # "none" THEN CommandOutcome(1, data.exc, out) ELSE rebuild_write(write_bytes(out, data.value))

\* lines 29-39 of cmd_rebuild, v being the outcome of the verify_manifest call
rebuild_verified(v, doc, dir, key_hex, out) == IF v = "ValueError" THEN CommandOutcome(1, "ValueError", out) ELSE IF v # "none" THEN CommandOutcome(1, "none", out) ELSE rebuild_reconstructed(reconstruct_file(doc, dir, IF Truthy(key_hex) THEN fromhex(key_hex) ELSE None, TRUE), out)

\* cmd_rebuild(args)
cmd_rebuild(doc, use_dir, dir, key_hex, out) == IF load_manifest(doc).exc # "none" THEN CommandOutcome(1, "none", out) ELSE rebuild_verified(verify_manifest(doc, use_dir, dir), doc, dir, key_hex, out)

\* ------------------------------------------------------ fixtures (tests)
KeyA == <<17>>

KeyB == <<99>>

Nonce == <<5, 6>>

CorruptBytes == <<222, 173>>

\* the bytes handed to encode_data: the plaintext, or its GCM ciphertext without the tag
Stream(plain, encrypted) == IF encrypted THEN gcm_crypt(KeyA, Nonce, plain) ELSE plain

\* the shard directory written by create_test_shards: path i holds shard i
WrittenShards(shards) == [i \in 0..(Len(shards) - 1) |-> shards[i + 1]]

\* the encryption block of scenario S6: tag split off the ciphertext
EncryptionBlock(plain) == [algorithm |-> "aes-256-gcm", iv |-> hex(Nonce), tag |-> hex(gcm_tag(KeyA, Nonce, gcm_crypt(KeyA, Nonce, plain)))]

\* the manifest written by create_test_shards
MakeManifest(plain, encrypted, shards, k, n) == LET leaf_hashes == Tuple([i \in 1..Len(shards) |-> sha256_hexdigest(shards[i])], Len(shards)) IN [file |-> "json", keys |-> {"version", "hash_algorithm", "original_size_bytes", "original_hash", "rs", "shards", "merkle"} \cup (IF encrypted THEN {"encryption"} ELSE {}), version |-> "nebula_reconstruct_v1", hash_algorithm |-> "sha256", original_size_bytes |-> Len(plain), original_hash |-> sha256_hexdigest(plain), rs |-> [keys |-> {"data_shards", "parity_shards", "total_shards"}, data_shards |-> k, parity_shards |-> n - k, total_shards |-> n], shards |-> Tuple([i \in 1..Len(shards) |-> [index |-> i - 1, hash |-> leaf_hashes[i], size_bytes |-> Len(shards[i]), path |-> i - 1]], Len(shards)), merkle |-> [algorithm |-> "sha256", root |-> compute_merkle_root(leaf_hashes), leaf_hashes |-> leaf_hashes], encryption |-> IF encrypted THEN EncryptionBlock(plain) ELSE NoEncryption]

NoManifest == MakeManifest(<<>>, FALSE, <<>>, 0, 0)

\* ------------------------------------------------------------------ state
VARIABLES plain, k, n, encrypted, phase, enc, files, doc, tampers, out, last

vars == <<plain, k, n, encrypted, phase, enc, files, doc, tampers, out, last>>

NoCall == [op |-> "none"]

NoEncoding == [status |-> "none", shards |-> <<>>, params |-> NoParams]

\* the (k, n) pairs tried: small ones, valid or not, and one beyond the field size
ParamPairs == {<<a, b>> : a \in (-1)..MaxN, b \in 0..MaxN} \cup {<<255, 256>>}

Init == /\ plain \in BytesUpTo(MaxLen) /\ \E pair \in ParamPairs : (k = pair[1] /\ n = pair[2]) /\ encrypted \in BOOLEAN /\ phase = "init" /\ enc = NoEncoding /\ files = WrittenShards(<<>>) /\ doc = NoManifest /\ tampers = 0 /\ out = None /\ last = NoCall

\* encode_data(data, k, n) on the stream to protect
EncodeData == /\ phase = "init" /\ enc' = encode_data(Stream(plain, encrypted), k, n) /\ phase' = "encoded" /\ last' = NoCall /\ UNCHANGED <<plain, k, n, encrypted, files, doc, tampers, out>>

\* the index list of the chosen shards, optionally with one entry replaced
IndexLists(S) == LET true == SortedSeq(S) IN {true} \cup {[true EXCEPT ![pos] = r] : pos \in 1..Len(true), r \in 0..(n - 1)}

\* reconstruct_data on a selection of the encoded shards
ReconstructData == /\ last = NoCall /\ phase = "encoded" /\ enc.status = "ok" /\ n <= MaxN /\ \E S \in SUBSET (0..(n - 1)) : \E indices \in IndexLists(S) : \E original_size \in 0..(k * enc.params.shard_size) : /\ (indices # SortedSeq(S) => original_size = Len(plain)) /\ LET shards == Tuple([i \in 1..Cardinality(S) |-> enc.shards[SortedSeq(S)[i] + 1]], Cardinality(S)) IN last' = [op |-> "reconstruct_data", shards |-> shards, indices |-> indices, original_size |-> original_size, result |-> reconstruct_data(shards, indices, enc.params, original_size)] /\ UNCHANGED <<plain, k, n, encrypted, phase, enc, files, doc, tampers, out>>

\* the rest of create_test_shards: shard files and manifest
WriteFixture == /\ last = NoCall /\ phase = "encoded" /\ enc.status = "ok" /\ n <= MaxN /\ phase' = "written" /\ files' = WrittenShards(enc.shards) /\ doc' = MakeManifest(plain, encrypted, enc.shards, k, n) /\ last' = NoCall /\ UNCHANGED <<plain, k, n, encrypted, enc, tampers, out>>

\* a shard file is unlinked
DeleteShard == /\ last = NoCall /\ phase = "written" /\ \E i \in DOMAIN files : /\ files[i] # None /\ files' = [files EXCEPT ![i] = None] /\ last' = NoCall /\ UNCHANGED <<plain, k, n, encrypted, phase, enc, doc, tampers, out>>

\* a shard file is overwritten with other bytes
CorruptShard == /\ last = NoCall /\ phase = "written" /\ \E i \in DOMAIN files : /\ files[i] # CorruptBytes /\ files' = [files EXCEPT ![i] = CorruptBytes] /\ last' = NoCall /\ UNCHANGED <<plain, k, n, encrypted, phase, enc, doc, tampers, out>>

\* a damaged or deleted shard file is put back from a copy of the original shard
RestoreShard == /\ last = NoCall /\ phase = "written" /\ \E i \in DOMAIN files : /\ files[i] # enc.shards[i + 1] /\ files' = [files EXCEPT ![i] = enc.shards[i + 1]] /\ last' = [op |-> "restore_shard", path |-> i, was |-> files[i]] /\ UNCHANGED <<plain, k, n, encrypted, phase, enc, doc, tampers, out>>

\* the manifest after one alteration
Tampered(manifest, kind) == IF kind = "garbled" THEN [manifest EXCEPT !.file = "garbled"] ELSE IF kind = "hash_algorithm" THEN [manifest EXCEPT !.hash_algorithm = "md5"] ELSE IF kind = "original_hash" THEN [manifest EXCEPT !.original_hash = sha256_hexdigest(CorruptBytes)] ELSE IF kind = "original_hash_absent" THEN [manifest EXCEPT !.keys = @ \ {"original_hash"}] ELSE IF kind = "merkle_leaf" THEN [manifest EXCEPT !.merkle.leaf_hashes[1] = sha256_hexdigest(CorruptBytes)] ELSE IF "encryption" \notin manifest.keys THEN manifest ELSE IF kind = "cipher" THEN [manifest EXCEPT !.encryption.algorithm = "chacha20-poly1305"] ELSE IF kind = "iv_absent" THEN [manifest EXCEPT !.encryption.iv = <<>>] ELSE [manifest EXCEPT !.encryption = NoEncryption]

\* the manifest document is altered
TamperManifest == /\ last = NoCall /\ phase = "written" /\ tampers < MaxTamper /\ \E kind \in {"garbled", "hash_algorithm", "original_hash", "original_hash_absent", "merkle_leaf", "cipher", "iv_absent", "encryption_empty"} : /\ Tampered(doc, kind) # doc /\ doc' = Tampered(doc, kind) /\ tampers' = tampers + 1 /\ last' = NoCall /\ UNCHANGED <<plain, k, n, encrypted, phase, enc, files, out>>


\* faulty variant: the call unlinks every shard file once it has read it
ReconstructFile_consuming == /\ last = NoCall /\ phase = "written" /\ doc.file = "json" /\ \E key \in {<<-1>>, <<17>>, <<99>>} : \E verify_hash \in BOOLEAN : last' = [op |-> "reconstruct_file", key |-> key, verify_hash |-> verify_hash, outcome |-> reconstruct_file(doc, files, key, verify_hash)] /\ files' = [i \in DOMAIN files |-> <<-1>>] /\ UNCHANGED <<plain, k, n, encrypted, phase, enc, doc, tampers, out>>

\* reconstruct_file(manifest, shard_dir, key, verify_hash) on the parsed manifest
ReconstructFile == /\ last = NoCall /\ phase = "written" /\ doc.file = "json" /\ \E key \in {None, KeyA, KeyB} : \E verify_hash \in BOOLEAN : last' = [op |-> "reconstruct_file", key |-> key, verify_hash |-> verify_hash, outcome |-> reconstruct_file(doc, files, key, verify_hash)] /\ UNCHANGED <<plain, k, n, encrypted, phase, enc, files, doc, tampers, out>>

\* nebula-reconstruct verify manifest [--shard-dir DIR]
CmdVerify == /\ last = NoCall /\ phase = "written" /\ \E use_dir \in BOOLEAN : last' = [op |-> "cmd_verify", use_dir |-> use_dir, outcome |-> cmd_verify(doc, use_dir, files, out)] /\ UNCHANGED <<plain, k, n, encrypted, phase, enc, files, doc, tampers, out>>

\* nebula-reconstruct rebuild manifest [--shard-dir DIR] --out PATH [--key-hex HEX]
CmdRebuild == /\ last = NoCall /\ phase = "written" /\ \E use_dir \in BOOLEAN : \E key_hex \in {None, hex(KeyA), hex(KeyB)} : \E outcome \in {cmd_rebuild(doc, use_dir, files, key_hex, out)} : /\ last' = [op |-> "cmd_rebuild", use_dir |-> use_dir, key_hex |-> key_hex, outcome |-> outcome] /\ out' = outcome.out /\ UNCHANGED <<plain, k, n, encrypted, phase, enc, files, doc, tampers>>

\* the caller is done with the result of the last call
Return == /\ last # NoCall /\ last' = NoCall /\ UNCHANGED <<plain, k, n, encrypted, phase, enc, files, doc, tampers, out>>

Next == \/ Return \/ EncodeData \/ ReconstructData \/ WriteFixture \/ DeleteShard \/ CorruptShard \/ RestoreShard \/ TamperManifest \/ ReconstructFile \/ CmdVerify \/ CmdRebuild

Spec == Init /\ [][Next]_vars

\* ------------------------------------------- hand-written manifests (test_manifest.py)
\* the shard files of a hand-written fixture: n blobs, pairwise different
Blobs(count) == Tuple([i \in 1..count |-> <<i>>], count)

\* rs blocks a hand-written manifest declares: data_shards <= total_shards
ManifestPairs == {<<a, b>> : a \in 1..MaxN, b \in 1..MaxN} \ {<<a, b>> \in (1..MaxN) \X (1..MaxN) : a > b}

\* a manifest written by hand over existing shard files, as the tests of verify_manifest do
ManifestInit == /\ \E pair \in ManifestPairs : (/\ k = pair[1] /\ n = pair[2] /\ files = WrittenShards(Blobs(pair[2])) /\ doc = MakeManifest(<<>>, FALSE, Blobs(pair[2]), pair[1], pair[2])) /\ plain = <<>> /\ encrypted = FALSE /\ phase = "written" /\ enc = NoEncoding /\ tampers = 0 /\ out = None /\ last = NoCall

\* the sequence back to front
Reversed(seq) == Tuple([i \in 1..Len(seq) |-> seq[Len(seq) + 1 - i]], Len(seq))

\* the leaf list with its first leaf replaced by the digest of other bytes
Relabelled(leaves) == IF leaves = <<>> THEN leaves ELSE [leaves EXCEPT ![1] = sha256_hexdigest(CorruptBytes)]

AlterKinds == {"drop_version", "other_version", "drop_shards", "hash_algorithm", "drop_total_shards", "too_few", "rs_sum", "index_range", "index_dup", "leaf", "drop_merkle", "relabel_merkle", "reverse_shards"}

\* the hand-written manifest after one edit of its JSON text
Altered(manifest, kind) == IF kind = "drop_version" THEN [manifest EXCEPT !.keys = @ \ {"version"}] ELSE IF kind = "other_version" THEN [manifest EXCEPT !.version = "nebula_reconstruct_v2"] ELSE IF kind = "drop_shards" THEN [manifest EXCEPT !.keys = @ \ {"shards"}] ELSE IF kind = "hash_algorithm" THEN [manifest EXCEPT !.hash_algorithm = "md5"] ELSE IF kind = "drop_total_shards" THEN [manifest EXCEPT !.rs.keys = @ \ {"total_shards"}] ELSE IF kind = "too_few" THEN [manifest EXCEPT !.shards = SubSeq(@, 1, Min(Len(@), manifest.rs.data_shards - 1))] ELSE IF kind = "rs_sum" THEN [manifest EXCEPT !.rs.total_shards = @ + 1] ELSE IF kind = "index_range" THEN (IF manifest.shards = <<>> THEN manifest ELSE [manifest EXCEPT !.shards[1].index = manifest.rs.total_shards]) ELSE IF kind = "index_dup" THEN (IF Len(manifest.shards) < 2 THEN manifest ELSE [manifest EXCEPT !.shards[Len(manifest.shards)].index = manifest.shards[1].index]) ELSE IF kind = "leaf" THEN (IF manifest.merkle.leaf_hashes = <<>> THEN manifest ELSE [manifest EXCEPT !.merkle.leaf_hashes[Len(manifest.merkle.leaf_hashes)] = sha256_hexdigest(CorruptBytes)]) ELSE IF kind = "drop_merkle" THEN [manifest EXCEPT !.keys = @ \ {"merkle"}] ELSE IF kind = "relabel_merkle" THEN [manifest EXCEPT !.merkle.leaf_hashes = Relabelled(@), !.merkle.root = compute_merkle_root(Relabelled(manifest.merkle.leaf_hashes))] ELSE [manifest EXCEPT !.shards = Reversed(@)]

\* the manifest text is edited by hand
AlterManifest == /\ last = NoCall /\ phase = "written" /\ tampers < MaxAlter /\ \E kind \in AlterKinds : /\ Altered(doc, kind) # doc /\ doc' = Altered(doc, kind) /\ tampers' = tampers + 1 /\ last' = NoCall /\ UNCHANGED <<plain, k, n, encrypted, phase, enc, files, out>>

\* verify_manifest(manifest, shard_dir) called as a library function
VerifyManifest == /\ last = NoCall /\ phase = "written" /\ doc.file = "json" /\ \E use_dir \in BOOLEAN : last' = [op |-> "verify_manifest", use_dir |-> use_dir, result |-> verify_manifest(doc, use_dir, files)] /\ UNCHANGED <<plain, k, n, encrypted, phase, enc, files, doc, tampers, out>>

\* load_and_verify_shards(manifest, shard_dir) called as a library function; manifest["shards"]
\* of a manifest without that key raises KeyError
LoadAndVerifyShards == /\ last = NoCall /\ phase = "written" /\ doc.file = "json" /\ last' = [op |-> "load_and_verify_shards", outcome |-> IF "shards" \in doc.keys THEN [exc |-> "none", infos |-> load_and_verify_shards(doc, files)] ELSE [exc |-> "KeyError", infos |-> <<>>]] /\ UNCHANGED <<plain, k, n, encrypted, phase, enc, files, doc, tampers, out>>

ManifestNext == \/ Return \/ AlterManifest \/ DeleteShard \/ CorruptShard \/ VerifyManifest \/ LoadAndVerifyShards

ManifestSpec == ManifestInit /\ [][ManifestNext]_vars

\* -------------------------------------------------- compute_merkle_root on its own
\* hex digests used as leaves
LeafDigests == {sha256_hexdigest(<<0>>), sha256_hexdigest(<<1>>), sha256_hexdigest(<<2>>)}

RECURSIVE LeafLists(_)
\* the leaf lists of at most len leaves
LeafLists(len) == IF len = 0 THEN {<<>>} ELSE LeafLists(len - 1) \cup {Append(l, h) : l \in {t \in LeafLists(len - 1) : Len(t) = len - 1}, h \in LeafDigests}

\* no call made yet
MerkleInit == /\ plain = <<>> /\ k = 0 /\ n = 0 /\ encrypted = FALSE /\ phase = "init" /\ enc = NoEncoding /\ files = WrittenShards(<<>>) /\ doc = NoManifest /\ tampers = 0 /\ out = None /\ last = NoCall

\* compute_merkle_root(leaves), and for a non-empty list compute_merkle_root(leaves + [leaves[-1]])
ComputeMerkleRoot == /\ last = NoCall /\ \E leaves \in LeafLists(MaxLeaves) : last' = [op |-> "compute_merkle_root", leaves |-> leaves, root |-> compute_merkle_root(leaves), root_of_padded |-> IF leaves = <<>> THEN <<>> ELSE compute_merkle_root(Append(leaves, leaves[Len(leaves)]))] /\ UNCHANGED <<plain, k, n, encrypted, phase, enc, files, doc, tampers, out>>

MerkleNext == \/ Return \/ ComputeMerkleRoot

MerkleSpec == MerkleInit /\ [][MerkleNext]_vars

\* ----------------------------------------------- analyze_reconstruction on its own
RECURSIVE IndexSeqs(_, _)
\* the index lists of at most len entries over the shard indices below total
IndexSeqs(len, total) == IF len = 0 THEN {<<>>} ELSE IndexSeqs(len - 1, total) \cup {Append(l, i) : l \in {t \in IndexSeqs(len - 1, total) : Len(t) = len - 1}, i \in 0..(total - 1)}

\* no call made yet
AnalyzeInit == MerkleInit

\* analyze_reconstruction(available_indices, k, n)
AnalyzeReconstruction == /\ last = NoCall /\ \E required \in 0..MaxN : \E total \in 1..MaxN : \E indices \in IndexSeqs(total, total) : last' = [op |-> "analyze_reconstruction", indices |-> indices, k |-> required, n |-> total, result |-> analyze_reconstruction(indices, required, total)] /\ UNCHANGED <<plain, k, n, encrypted, phase, enc, files, doc, tampers, out>>

AnalyzeNext == \/ Return \/ AnalyzeReconstruction

AnalyzeSpec == AnalyzeInit /\ [][AnalyzeNext]_vars

\* ------------------------------------------------ shards of unequal length
\* a shard is written again one byte longer (zero padded) and its descriptor in the
\* manifest is brought in line with the new file: hash and size_bytes
RewriteShard == /\ last = NoCall /\ phase = "written" /\ doc.file = "json" /\ \E i \in DOMAIN files : /\ files[i] = enc.shards[i + 1] /\ doc.shards[i + 1].path = i /\ files' = [files EXCEPT ![i] = files[i] \o <<0>>] /\ doc' = [doc EXCEPT !.shards[i + 1].hash = sha256_hexdigest(files[i] \o <<0>>), !.shards[i + 1].size_bytes = Len(files[i]) + 1] /\ last' = NoCall /\ UNCHANGED <<plain, k, n, encrypted, phase, enc, tampers, out>>

ResizeNext == \/ Return \/ EncodeData \/ WriteFixture \/ RewriteShard \/ DeleteShard \/ ReconstructFile

ResizeSpec == Init /\ [][ResizeNext]_vars

\* ----------------------------------------------------------------- claims
\* the bytes given to encode_data
Encoded == Stream(plain, encrypted)

\* the last call was reconstruct_data on distinct shards of the encoding under their own indices
TrueSelection == /\ last.op = "reconstruct_data" /\ Len(last.indices) = Len(last.shards) /\ (\A i \in 1..Len(last.indices) : last.shards[i] = enc.shards[last.indices[i] + 1]) /\ (\A i, j \in 1..Len(last.indices) : i # j => last.indices[i] # last.indices[j])

\* C1: every selection of at least k encoded shards, passed to reconstruct_data with its
\* own indices and original_size = |P|, decodes successfully to exactly P
C1_RoundTrip == (TrueSelection /\ Len(last.shards) >= k /\ last.original_size = Len(Encoded)) => (last.result.success /\ last.result.data = Encoded)

\* C1 witness: a decode through the erasure path (a data shard is absent) of a non-empty input
C1_Witness == TrueSelection /\ Len(last.shards) >= k /\ last.original_size = Len(Encoded) /\ Encoded # <<>> /\ (\E d \in 0..(k - 1) : \A i \in 1..Len(last.indices) : last.indices[i] # d) /\ last.result.success /\ last.result.data = Encoded

\* the descriptors whose file exists with the declared SHA-256
ValidDescriptors == {i \in 1..Len(doc.shards) : doc.shards[i].path \in DOMAIN files /\ files[doc.shards[i].path] # None /\ hex(sha256(files[doc.shards[i].path])) = doc.shards[i].hash}

MissingDescriptors == {i \in 1..Len(doc.shards) : doc.shards[i].path \notin DOMAIN files \/ files[doc.shards[i].path] = None}

\* the manifest fields reconstruct_file reads
ReconstructionFields(m) == <<m.keys \cap {"original_size_bytes", "original_hash", "rs", "shards", "encryption"}, m.original_size_bytes, m.original_hash, m.rs, m.shards, m.encryption>>

\* the manifest still describes the encoding of the plaintext, and the key (if needed) is the right one
Recoverable == /\ last.op = "reconstruct_file" /\ ReconstructionFields(doc) = ReconstructionFields(MakeManifest(plain, encrypted, enc.shards, k, n)) /\ (encrypted => last.key = KeyA)

\* C2: with at least k valid shards reconstruct_file returns the plaintext and success,
\* whatever happened to the other shards; their errors are in the report, and
\* shards_valid counts the valid shards
C2_SurvivesBadShards == (Recoverable /\ Cardinality(ValidDescriptors) >= k) => (/\ last.outcome.exc = "none" /\ last.outcome.value.data = plain /\ last.outcome.report.success /\ last.outcome.report.shards_valid = Cardinality(ValidDescriptors) /\ \A i \in 1..Len(doc.shards) : last.outcome.report.shard_details[i].error = (IF i \in ValidDescriptors THEN "none" ELSE IF i \in MissingDescriptors THEN "not_found" ELSE "hash_mismatch"))

\* C2 witness: one shard missing, another with a wrong hash, and the plaintext is returned
C2_Witness == /\ Recoverable /\ Cardinality(ValidDescriptors) >= k /\ plain # <<>> /\ MissingDescriptors # {} /\ (1..Len(doc.shards)) \ (ValidDescriptors \cup MissingDescriptors) # {} /\ last.outcome.exc = "none" /\ last.outcome.value.data = plain

\* C3: reconstruct_file raises the infeasible error, with need = k and have = the number
\* of valid shards, exactly when fewer than k declared shards are valid; then the
\* decoder is not invoked and nothing is returned
C3_Infeasible == last.op = "reconstruct_file" => (/\ (last.outcome.report.error = "infeasible") <=> (Cardinality(ValidDescriptors) < doc.rs.data_shards) /\ (Cardinality(ValidDescriptors) < doc.rs.data_shards => (/\ last.outcome.exc = "ManifestError" /\ last.outcome.report.error_need = doc.rs.data_shards /\ last.outcome.report.error_have = Cardinality(ValidDescriptors) /\ ~last.outcome.rs_called /\ last.outcome.value.data = None)))

\* C3 witness: one shard short of k >= 2
C3_Witness == /\ last.op = "reconstruct_file" /\ doc.rs.data_shards >= 2 /\ Cardinality(ValidDescriptors) = doc.rs.data_shards - 1 /\ last.outcome.report.error = "infeasible"

\* the key the rebuild command derives from --key-hex
RebuildKey == IF Truthy(last.key_hex) THEN fromhex(last.key_hex) ELSE None

\* the full reconstruction succeeds on the manifest and the shard directory
RebuildSucceeds == /\ last.op = "cmd_rebuild" /\ load_manifest(doc).exc = "none" /\ verify_manifest(doc, FALSE, files) = "none" /\ reconstruct_file(doc, files, RebuildKey, TRUE).exc = "none"

\* C4: whenever the full reconstruction succeeds, rebuild writes exactly the reconstructed
\* plaintext to --out and exits with status 0
C4_RebuildWrites == RebuildSucceeds => (last.outcome.exit_status = 0 /\ last.outcome.out = reconstruct_file(doc, files, RebuildKey, TRUE).value.data)

\* C5: verify exits 0 exactly when load_manifest and verify_manifest pass and 1 otherwise;
\* rebuild exits 1 and leaves no output file whenever loading, verification or
\* reconstruction fails
C5_ExitStatus == /\ (last.op = "cmd_verify" => (/\ last.outcome.exit_status \in {0, 1} /\ (last.outcome.exit_status = 0) <=> (load_manifest(doc).exc = "none" /\ verify_manifest(doc, last.use_dir, files) = "none"))) /\ ((last.op = "cmd_rebuild" /\ (\/ load_manifest(doc).exc # "none" \/ verify_manifest(doc, last.use_dir, files) # "none" \/ reconstruct_file(doc, files, RebuildKey, TRUE).exc # "none")) => (last.outcome.exit_status = 1 /\ last.outcome.out = None /\ out = None))

\* C5 witness: rebuild passes loading and verification and fails in reconstruction
C5_Witness == /\ last.op = "cmd_rebuild" /\ load_manifest(doc).exc = "none" /\ verify_manifest(doc, last.use_dir, files) = "none" /\ reconstruct_file(doc, files, RebuildKey, TRUE).exc = "ManifestError" /\ last.outcome.exit_status = 1 /\ out = None

\* C6: a successful decode has exactly original_size bytes, from reconstruct_data
\* directly and through reconstruct_file (whose original_size is original_size_bytes)
C6_SizeFidelity == /\ ((last.op = "reconstruct_data" /\ last.result.success) => Len(last.result.data) = last.original_size) /\ ((last.op = "reconstruct_file" /\ last.outcome.exc = "none") => (Len(last.outcome.value.data) = doc.original_size_bytes /\ last.outcome.report.reconstructed_size = doc.original_size_bytes))

\* C6 witness: an erasure-path decode that cuts padding off
C6_Witness == /\ TrueSelection /\ last.result.success /\ last.original_size > 0 /\ last.original_size < k * enc.params.shard_size /\ (\E d \in 0..(k - 1) : \A i \in 1..Len(last.indices) : last.indices[i] # d) /\ Len(last.result.data) = last.original_size

\* the number of bytes per shard: the least m with m * k >= |P|
ExpectedShardSize == CHOOSE m \in 0..Len(Encoded) : m * k >= Len(Encoded) /\ (m = 0 \/ (m - 1) * k < Len(Encoded))

\* C7: encode_data returns n shards of ceil(|P| / k) bytes each, and the first k,
\* concatenated in index order, are P followed by zero bytes only
C7_SystematicLayout == enc.status = "ok" => (/\ Len(enc.shards) = n /\ enc.params.shard_size = ExpectedShardSize /\ \A i \in 1..n : Len(enc.shards[i]) = ExpectedShardSize /\ LET head == Concat(SubSeq(enc.shards, 1, k)) IN /\ Len(head) = k * ExpectedShardSize /\ \A p \in 1..Len(head) : head[p] = (IF p <= Len(Encoded) THEN Encoded[p] ELSE 0))

\* C7 witness: an input that needs padding and gives shards of two bytes or more
C7_Witness == enc.status = "ok" /\ Len(Encoded) % k # 0 /\ enc.params.shard_size >= 2 /\ Len(enc.shards) = n

\* C8: encode_data raises its invalid-parameters error, and produces no shards,
\* whenever n <= k, k < 1 or n > 255
C8_InvalidParams == (phase # "init" /\ (n <= k \/ k < 1 \/ n > 255)) => (enc.status = "ValueError" /\ enc.shards = <<>>)

\* C9: reconstruct_data returns the insufficient-shards result whenever the index -> bytes
\* mapping of its inputs has fewer than k entries
C9_Insufficient == (last.op = "reconstruct_data" /\ Cardinality({last.indices[i] : i \in 1..Min(Len(last.indices), Len(last.shards))}) < k) => (~last.result.success /\ last.result.data = None /\ last.result.error = "need_shards")

\* C10: on an encrypted fixture with separated tag, the right key yields the plaintext with
\* decrypted (and, when the hash is verified, hash_verified) set; a wrong key fails
\* with the decryption error and returns nothing
C10_Encrypted == (/\ last.op = "reconstruct_file" /\ encrypted /\ ReconstructionFields(doc) = ReconstructionFields(MakeManifest(plain, encrypted, enc.shards, k, n)) /\ Truthy(doc.encryption.tag) /\ Cardinality(ValidDescriptors) >= k) => (/\ (last.key = KeyA => (/\ last.outcome.exc = "none" /\ last.outcome.value.data = plain /\ last.outcome.report.decrypted /\ last.outcome.report.success /\ (last.verify_hash => last.outcome.report.hash_verified))) /\ (last.key = KeyB => (/\ last.outcome.exc = "ManifestError" /\ last.outcome.report.error = "decryption_failed" /\ last.outcome.value.data = None /\ ~last.outcome.report.decrypted)))

\* C10 witness: the right key opens a non-empty plaintext after an erasure decode
C10_Witness == /\ last.op = "reconstruct_file" /\ encrypted /\ plain # <<>> /\ last.key = KeyA /\ last.verify_hash /\ MissingDescriptors # {} /\ 1 \in MissingDescriptors /\ last.outcome.exc = "none" /\ last.outcome.value.data = plain /\ last.outcome.report.decrypted /\ last.outcome.report.hash_verified

\* the manifest of the last reconstruct_file call declares a whole-file hash
DeclaresHash == "original_hash" \in doc.keys /\ Truthy(doc.original_hash)

\* the last reconstruct_file call got as far as hashing its plaintext (line 307)
HashedPlaintext == last.op = "reconstruct_file" /\ last.outcome.report.reconstructed_hash # None

\* C11: with verify_hash and a declared original_hash, reconstruct_file returns only a
\* plaintext whose SHA-256 is original_hash, with hash_verified = true, and a plaintext
\* with another hash is refused with the hash-mismatch error; with verify_hash false or
\* no original_hash the comparison is skipped: the call succeeds, hash_verified false
C11_WholeFileHash == last.op = "reconstruct_file" => (/\ ((last.verify_hash /\ DeclaresHash /\ last.outcome.exc = "none") => (/\ sha256_hexdigest(last.outcome.value.data) = doc.original_hash /\ last.outcome.report.hash_verified /\ last.outcome.report.success)) /\ ((last.verify_hash /\ DeclaresHash /\ HashedPlaintext /\ last.outcome.report.reconstructed_hash # doc.original_hash) => (/\ last.outcome.exc = "ManifestError" /\ last.outcome.report.error = "hash_mismatch" /\ ~last.outcome.report.success /\ ~last.outcome.report.hash_verified)) /\ ((last.outcome.report.error = "hash_mismatch") => (last.verify_hash /\ DeclaresHash /\ HashedPlaintext /\ last.outcome.report.reconstructed_hash # doc.original_hash)) /\ ((HashedPlaintext /\ (~last.verify_hash \/ ~DeclaresHash)) => (/\ last.outcome.exc = "none" /\ last.outcome.report.success /\ ~last.outcome.report.hash_verified)))

\* C11 witness: a declared hash that the rebuilt plaintext does not have is refused
C11_Witness == /\ HashedPlaintext /\ last.verify_hash /\ DeclaresHash /\ plain # <<>> /\ last.outcome.report.reconstructed_hash = sha256_hexdigest(plain) /\ doc.original_hash # sha256_hexdigest(plain) /\ last.outcome.report.error = "hash_mismatch"

\* C12: when reconstruct_file fails with a fatal error, the caller gets no plaintext
\* bytes and still holds the report that carries the error
C12_FatalErrorReport == (last.op = "reconstruct_file" /\ last.outcome.exc = "ManifestError") => (/\ last.outcome.value.data = None /\ Len(last.outcome.received) = 1 /\ last.outcome.received[1].error = last.outcome.report.error /\ last.outcome.received[1].error # "none")

\* the last call is verify_manifest as a library function
VerifyCall == last.op = "verify_manifest"

\* the required top-level fields in the documented order
DocumentedFields == <<"version", "hash_algorithm", "original_size_bytes", "rs", "shards">>

MissingTop == {f \in {DocumentedFields[i] : i \in 1..Len(DocumentedFields)} : f \notin doc.keys}

RsComplete == {"data_shards", "parity_shards", "total_shards"} \subseteq doc.rs.keys

\* C13: verify_manifest rejects a manifest that lacks a required top-level field, whose
\* hash_algorithm is not sha256, or that declares fewer than rs.data_shards shards, and
\* the earliest of these checks that is violated determines the error
C13_StructuralOrder == VerifyCall => (/\ (MissingTop # {} => \E i \in 1..Len(DocumentedFields) : (/\ DocumentedFields[i] \in MissingTop /\ (\A j \in 1..(i - 1) : DocumentedFields[j] \notin MissingTop) /\ last.result = missing_field_error[DocumentedFields[i]])) /\ ((MissingTop = {} /\ doc.hash_algorithm # "sha256") => last.result = "unsupported_hash") /\ ((MissingTop = {} /\ doc.hash_algorithm = "sha256" /\ RsComplete /\ Len(doc.shards) < doc.rs.data_shards) => last.result = "not_enough_shards"))

\* C13 witness: a wrong hash algorithm and too few shards together: the algorithm is reported
C13_Witness == /\ VerifyCall /\ MissingTop = {} /\ doc.hash_algorithm # "sha256" /\ RsComplete /\ Len(doc.shards) < doc.rs.data_shards /\ last.result = "unsupported_hash"

\* C14: verify_manifest accepts only manifests whose rs block has data_shards +
\* parity_shards = total_shards
C14_RsBlockSum == (VerifyCall /\ last.result = "none") => (RsComplete /\ doc.rs.data_shards + doc.rs.parity_shards = doc.rs.total_shards)

\* every declared index lies in [0, total_shards) and no two descriptors share one
IndicesValid == /\ (\A i \in 1..Len(doc.shards) : (doc.shards[i].index >= 0 /\ doc.shards[i].index < doc.rs.total_shards)) /\ \A i \in 1..Len(doc.shards) : \A j \in 1..Len(doc.shards) : (i # j => doc.shards[i].index # doc.shards[j].index)

\* C15: verify_manifest accepts only manifests whose shard indices lie in
\* [0, total_shards) and are pairwise different
C15_ShardIndices == (VerifyCall /\ last.result = "none") => IndicesValid

RECURSIVE TreeLayer(_)
\* one layer up in the documented tree: adjacent nodes hashed pairwise, a last odd node with itself
TreeLayer(nodes) == IF nodes = <<>> THEN <<>> ELSE IF Len(nodes) = 1 THEN <<sha256(nodes[1] \o nodes[1])>> ELSE <<sha256(nodes[1] \o nodes[2])>> \o TreeLayer(SubSeq(nodes, 3, Len(nodes)))

RECURSIVE TreeRoot(_)
\* the root of the documented tree over raw digests; a single node is the root
TreeRoot(nodes) == IF Len(nodes) = 1 THEN nodes[1] ELSE TreeRoot(TreeLayer(nodes))

\* the documented root, in hex, of a list of hex leaves
DocumentedRoot(leaves) == IF leaves = <<>> THEN <<>> ELSE hex(TreeRoot(Tuple([i \in 1..Len(leaves) |-> fromhex(leaves[i])], Len(leaves))))

RootDeclared == "merkle" \in doc.keys /\ Truthy(doc.merkle.root)

StructureOk == MissingTop = {} /\ doc.hash_algorithm = "sha256" /\ RsComplete /\ Len(doc.shards) >= doc.rs.data_shards

BadDescriptors == (1..Len(doc.shards)) \ ValidDescriptors

\* C16: with merkle.root present, verify_manifest fails with the Merkle mismatch exactly
\* when the root of the documented tree over merkle.leaf_hashes differs from the declared
\* root (the earlier checks having passed); so one altered leaf under the declared root fails
C16_MerkleCheck == VerifyCall => ((last.result = "merkle_mismatch") <=> (/\ StructureOk /\ (last.use_dir => BadDescriptors = {}) /\ RootDeclared /\ DocumentedRoot(doc.merkle.leaf_hashes) # doc.merkle.root))

\* C16 witness: one leaf altered, every shard file and shard hash correct
C16_Witness == /\ VerifyCall /\ last.use_dir /\ StructureOk /\ BadDescriptors = {} /\ Len(doc.shards) = n /\ n >= 3 /\ doc.merkle.root = DocumentedRoot(Tuple([i \in 1..n |-> doc.shards[i].hash], n)) /\ Cardinality({i \in 1..n : doc.merkle.leaf_hashes[i] # doc.shards[i].hash}) = 1 /\ last.result = "merkle_mismatch"

\* C17 as stated: for every leaf list of odd length, length 1 included,
\* compute_merkle_root(L) = compute_merkle_root(L with its last leaf appended once more)
C17_OddPaddingAnyLength == (last.op = "compute_merkle_root" /\ Len(last.leaves) % 2 = 1) => last.root = last.root_of_padded

\* C17 amended: the equality holds for every leaf list of odd length 3 or more; the root of
\* a single leaf is the leaf itself, which is not the root of the leaf listed twice
C17_OddPadding == (last.op = "compute_merkle_root" /\ Len(last.leaves) % 2 = 1) => IF Len(last.leaves) = 1 THEN (last.root = last.leaves[1] /\ last.root # last.root_of_padded) ELSE last.root = last.root_of_padded

\* C17 witness: three different leaves
C17_Witness == /\ last.op = "compute_merkle_root" /\ Len(last.leaves) = 3 /\ Cardinality({last.leaves[i] : i \in 1..3}) = 3 /\ last.root = last.root_of_padded /\ last.root = DocumentedRoot(last.leaves)

\* C18: a manifest with a Merkle root (and valid shard indices) passes verify_manifest
\* only if every shard descriptor's hash is the leaf at the position of its index
C18_LeafOrder == (VerifyCall /\ last.result = "none" /\ RootDeclared /\ IndicesValid) => \A i \in 1..Len(doc.shards) : (/\ doc.shards[i].index + 1 \in 1..Len(doc.merkle.leaf_hashes) /\ doc.merkle.leaf_hashes[doc.shards[i].index + 1] = doc.shards[i].hash)

\* the error of the descriptor at position i of the manifest
DescriptorError(i) == IF i \in MissingDescriptors THEN "shard_file_missing" ELSE "shard_hash_mismatch"

\* C19: with a shard directory, verify_manifest fails with the error of the first
\* descriptor, in manifest order, whose file is missing or has another SHA-256; without
\* a shard directory no shard file is checked
C19_FirstBadShard == (VerifyCall /\ StructureOk) => (/\ ((last.use_dir /\ BadDescriptors # {}) => \E i \in BadDescriptors : ((\A j \in BadDescriptors : i <= j) /\ last.result = DescriptorError(i))) /\ ((~last.use_dir \/ BadDescriptors = {}) => last.result \notin {"shard_file_missing", "shard_hash_mismatch"}))

\* C19 witness: a missing file listed before a corrupted one, in a manifest listing
\* its shards in another order than their indices
C19_Witness == /\ VerifyCall /\ StructureOk /\ last.use_dir /\ Len(doc.shards) >= 3 /\ doc.shards[1].index # 0 /\ 1 \in ValidDescriptors /\ 2 \in MissingDescriptors /\ 3 \in BadDescriptors \ MissingDescriptors /\ last.result = "shard_file_missing"

\* C20: load_and_verify_shards returns one record per descriptor in manifest order; a
\* record is valid iff the file exists with the declared SHA-256; a missing file gives
\* no bytes and the not-found error, another hash gives the bytes and the mismatch error
C20_ShardRecords == (last.op = "load_and_verify_shards" /\ last.outcome.exc = "none") => (/\ Len(last.outcome.infos) = Len(doc.shards) /\ \A i \in 1..Len(doc.shards) : (/\ last.outcome.infos[i].index = doc.shards[i].index /\ last.outcome.infos[i].path = doc.shards[i].path /\ last.outcome.infos[i].expected_hash = doc.shards[i].hash /\ (last.outcome.infos[i].valid <=> i \in ValidDescriptors) /\ (i \in ValidDescriptors => (last.outcome.infos[i].data = files[doc.shards[i].path] /\ last.outcome.infos[i].error = "none")) /\ (i \in MissingDescriptors => (last.outcome.infos[i].data = None /\ last.outcome.infos[i].error = "not_found")) /\ (i \in BadDescriptors \ MissingDescriptors => (last.outcome.infos[i].data = files[doc.shards[i].path] /\ last.outcome.infos[i].error = "hash_mismatch"))))

\* C20 witness: a manifest listing its shards back to front, with one valid, one missing
\* and one corrupted shard
C20_Witness == /\ last.op = "load_and_verify_shards" /\ last.outcome.exc = "none" /\ Len(last.outcome.infos) = 3 /\ last.outcome.infos[1].index = 2 /\ last.outcome.infos[3].index = 0 /\ \E a \in 1..3 : \E b \in 1..3 : \E c \in 1..3 : (/\ last.outcome.infos[a].valid /\ last.outcome.infos[b].error = "not_found" /\ last.outcome.infos[c].error = "hash_mismatch" /\ last.outcome.infos[c].data = CorruptBytes)

\* the indices listed in the last analyze_reconstruction call
Available == {last.indices[p] : p \in 1..Len(last.indices)}

BeforeRestore == [files EXCEPT ![last.path] = last.was]

\* the key that opens the fixture
FixtureKey == IF encrypted THEN KeyA ELSE None

\* C22: one more valid shard made available never turns a feasible reconstruction
\* infeasible and never changes the bytes a successful reconstruction returns; holding
\* at every such step, it holds over every sequence of them
C22_Monotone == (last.op = "restore_shard" /\ doc.file = "json") => \A verify_hash \in BOOLEAN : (/\ (reconstruct_file(doc, BeforeRestore, FixtureKey, verify_hash).report.feasible => reconstruct_file(doc, files, FixtureKey, verify_hash).report.feasible) /\ (reconstruct_file(doc, BeforeRestore, FixtureKey, verify_hash).exc = "none" => (/\ reconstruct_file(doc, files, FixtureKey, verify_hash).exc = "none" /\ reconstruct_file(doc, files, FixtureKey, verify_hash).value.data = reconstruct_file(doc, BeforeRestore, FixtureKey, verify_hash).value.data)))

\* C22 witness: a data shard comes back where k valid shards (a parity shard among
\* them) already rebuilt the file: erasure path before the step, fast path after
C22_Witness == /\ last.op = "restore_shard" /\ doc.file = "json" /\ plain # <<>> /\ k >= 2 /\ last.path = 0 /\ last.was = None /\ Cardinality(ValidDescriptors) = k + 1 /\ reconstruct_file(doc, BeforeRestore, FixtureKey, TRUE).exc = "none" /\ reconstruct_file(doc, files, FixtureKey, TRUE).value.data = plain

\* C23: verify_manifest accepts only manifests whose version is the recognized string
\* "nebula_reconstruct_v1"
C23_VersionVerbatim == (VerifyCall /\ last.result = "none") => doc.version = "nebula_reconstruct_v1"

\* the shard directory without the files whose hash differs from their descriptor's
WithoutMismatched == [p \in DOMAIN files |-> IF \E i \in BadDescriptors \ MissingDescriptors : doc.shards[i].path = p THEN None ELSE files[p]]

\* the positions of the valid descriptors, in manifest order
ValidPositions == SortedSeq(ValidDescriptors)

\* C24: the shards and indices reconstruct_file hands to the decoder are exactly those of
\* the descriptors that loaded with a matching hash, in manifest order, and the call
\* ends as it would with the mismatching files absent: their bytes have no influence
C24_OnlyValidShards == last.op = "reconstruct_file" => (/\ shard_data_list(valid_only(last.outcome.report.shard_details)) = Tuple([j \in 1..Len(ValidPositions) |-> files[doc.shards[ValidPositions[j]].path]], Len(ValidPositions)) /\ shard_indices_of(valid_only(last.outcome.report.shard_details)) = Tuple([j \in 1..Len(ValidPositions) |-> doc.shards[ValidPositions[j]].index], Len(ValidPositions)) /\ last.outcome.exc = reconstruct_file(doc, WithoutMismatched, last.key, last.verify_hash).exc /\ last.outcome.value.data = reconstruct_file(doc, WithoutMismatched, last.key, last.verify_hash).value.data /\ last.outcome.report.error = reconstruct_file(doc, WithoutMismatched, last.key, last.verify_hash).report.error)

\* C24 witness: a corrupted data shard next to k valid shards: the erasure solve runs
\* on the valid ones and returns the plaintext
C24_Witness == /\ last.op = "reconstruct_file" /\ last.outcome.exc = "none" /\ last.outcome.rs_called /\ k >= 2 /\ plain # <<>> /\ MissingDescriptors = {} /\ 1 \in BadDescriptors /\ Cardinality(ValidDescriptors) = k /\ last.outcome.value.data = plain

\* the valid shards of the last reconstruct_file call do not all have the same length
SizesDiffer == \E i \in ValidDescriptors : \E j \in ValidDescriptors : Len(files[doc.shards[i].path]) # Len(files[doc.shards[j].path])

\* C25: when the valid shards differ in length, reconstruct_file fails with the
\* shard-size-mismatch error, does not decode and returns no bytes
C25_ShardSizeMismatch == (last.op = "reconstruct_file" /\ SizesDiffer) => (/\ last.outcome.exc = "ManifestError" /\ last.outcome.report.error = "shard_size_mismatch" /\ ~last.outcome.rs_called /\ last.outcome.value.data = None)

\* the call was refused with the given error, nothing decrypted, no bytes returned
Rejected(o, e) == o.exc = "ManifestError" /\ o.report.error = e /\ ~o.report.decrypted /\ o.value.data = None

\* what the encryption stage must do with a block that counts as present
BlockEnforced(o, block, key) == /\ (block.algorithm # "aes-256-gcm" => Rejected(o, "unsupported_cipher")) /\ ((block.algorithm = "aes-256-gcm" /\ key = None) => Rejected(o, "key_required")) /\ ((block.algorithm = "aes-256-gcm" /\ key # None /\ block.iv = <<>>) => Rejected(o, "missing_iv"))

\* what reconstruct_file must do when no block counts as present: the post-RS
\* bytes come back as they are, the key plays no part, decrypted stays false
PassedThrough(o) == /\ ~o.report.decrypted /\ o.report.error \notin {"unsupported_cipher", "key_required", "missing_iv", "decryption_failed"} /\ (o.exc = "none" => o.value.data = Encoded) /\ (~last.verify_hash => o.exc = "none") /\ (\A key \in {None, KeyA, KeyB} : reconstruct_file(doc, files, key, last.verify_hash) = o)

\* a reconstruct_file call that got as far as the encryption stage
AtEncryptionStage == last.op = "reconstruct_file" /\ Cardinality(ValidDescriptors) >= k

SameAnswer == last.op = "reconstruct_file" => last.outcome = reconstruct_file(doc, files, last.key, last.verify_hash)

\* a step that performs a reconstruct_file call leaves manifest and shard files alone
ReadOnlyCall == (last'.op = "reconstruct_file" /\ last.op # "reconstruct_file") => UNCHANGED <<doc, files>>

====
